---- MODULE Spec2Model ----
(***************************************************************************)
(* QuantileForest (src/pyquantregForest.py): the instance attributes, the  *)
(* public operations fit, computeQuantile, setPrecisionOfCDF and           *)
(* compute_importance, and the pure computations they use.                 *)
(*                                                                         *)
(* Numbers.  Probability levels are a / AlphaDen.  A weight is an integer  *)
(* numerator over WDen(N, T) = T * N!, which every leaf occupancy divides; *)
(* a weight vector is [nan, w], nan standing for the all-NaN vector numpy  *)
(* produces when a tree's occupancy is 0 (0.0 / 0).  Python's 0-based      *)
(* indices are 1-based here.                                               *)
(*                                                                         *)
(* Collaborators.  The fitted forest (sklearn) is an oracle: apply gives   *)
(* each row a leaf of every tree, any leaf; leaf identifiers are opaque    *)
(* and tree-local, so the first training sample's leaf is named 1.  The    *)
(* constrained minimiser (scipy fmin_cobyla / fmin_slsqp) returns a point  *)
(* where the objective is least among the points satisfying the            *)
(* constraint.                                                             *)
(***************************************************************************)
EXTENDS Integers, Sequences, FiniteSets, TLC

NSample == 2
NTree == 1
NSampleW == 3
NTreeW == 2
NSampleQ == 4
NTreeQ == 2
AlphaDen == 10

Leaves == {1, 2}
Dims == {1, 2}
AlphaVals == {3, 6}
Methods == {"Cobyla", "SQP", "Newton"}

VARIABLES
    assigned,       \* names of the instance attributes assigned so far
    n_estimators,   \* self.n_estimators (constructor)
    n_sample,       \* self._n_sample
    input_dim,      \* self._input_dim
    output_sample,  \* self._output_sample
    sample_nodes,   \* self._sample_nodes[sample][tree]
    outputSample,   \* self._outputSample
    numSample,      \* self._numSample
    n_points,       \* self._n_points
    nodesOfSamples, \* self._nodesOfSamples[sample][tree]
    yCDF,           \* self._yCDF, [den, vals]: grid value g is vals[g] / den
    infYY,          \* self._infYY[grid index][sample]
    pc,             \* "idle", or how the last call ended: "returned" / "raised"
    op,             \* the operation of the last call, "none" when idle
    err,            \* the exception that ended it, "" if none
    arg,            \* its arguments
    nq,             \* n_quantiles as resolved by _check_input, 0 if not reached
    X_nodes,        \* leaf of each query row in each tree, <<>> if not reached
    weights,        \* the weight vector of each query point processed
    result          \* the value returned

inst == <<assigned, n_estimators, n_sample, input_dim, output_sample,
          sample_nodes, outputSample, numSample, n_points, nodesOfSamples>>
cdf == <<yCDF, infYY>>
call == <<pc, op, err, arg, nq, X_nodes, weights, result>>
vars == <<inst, cdf, call>>

(***************************************************************************)
(* Arithmetic helpers                                                      *)
(***************************************************************************)
RECURSIVE Fact(_)
Fact(n) == IF n <= 1 THEN 1 ELSE n * Fact(n - 1)

RECURSIVE SumSeq(_)
SumSeq(s) == IF s = <<>> THEN 0 ELSE Head(s) + SumSeq(Tail(s))

Max2(a, b) == IF a >= b THEN a ELSE b

SeqMin(s) == CHOOSE v \in {s[j] : j \in DOMAIN s} : \A j \in DOMAIN s : v <= s[j]
SeqMax(s) == CHOOSE v \in {s[j] : j \in DOMAIN s} : \A j \in DOMAIN s : v >= s[j]

WDen(N, T) == T * Fact(N)

NoArg == [xkind |-> "none", rows |-> 0, cols |-> 0, alpha |-> <<>>,
          do_optim |-> TRUE, doSaveCDF |-> FALSE, iTree |-> -1,
          opt_method |-> "", n_points |-> 0]
NoResult == [kind |-> "none", val |-> 0, vec |-> <<>>, rows |-> <<>>, den |-> 1]
NoGrid == [den |-> 1, vals |-> <<>>]

(***************************************************************************)
(* _check_input.  X is [nd, rows, cols], cols = 0 for a 1-D array.  The    *)
(* bare except also catches the ValueError raised inside the try, and the  *)
(* vector branch then runs with n unchanged.  ndarray.resize to another    *)
(* total size is refused (the caller's frame also refers to the array).    *)
(***************************************************************************)
check_input(X, dim) ==
    LET n0 == X.rows
        tried ==
            IF X.nd = 2
            THEN IF X.cols # dim
                 THEN IF n0 = dim
                      THEN [caught |-> FALSE, n |-> 1, d |-> n0]
                      ELSE [caught |-> TRUE, n |-> n0, d |-> X.cols]
                 ELSE [caught |-> FALSE, n |-> n0, d |-> X.cols]
            ELSE [caught |-> TRUE, n |-> n0, d |-> 0]
        after ==
            IF tried.caught
            THEN IF 1 # dim
                 THEN IF n0 = dim
                      THEN [err |-> "", n |-> 1, d |-> n0]
                      ELSE [err |-> "DimensionError", n |-> n0, d |-> 1]
                 ELSE [err |-> "", n |-> n0, d |-> 1]
            ELSE [err |-> "", n |-> tried.n, d |-> tried.d]
    IN IF after.err # ""
       THEN [err |-> after.err, n |-> 0, X |-> X]
       ELSE IF after.n > 1 /\ after.d = 1
            THEN IF X.nd = 2 /\ X.cols # 1
                 THEN [err |-> "ResizeError", n |-> 0, X |-> X]
                 ELSE [err |-> "", n |-> after.n,
                       X |-> [nd |-> 2, rows |-> after.n, cols |-> 1]]
            ELSE [err |-> "", n |-> after.n, X |-> X]

(***************************************************************************)
(* The weight of every training sample for one query point (lines 158-172) *)
(***************************************************************************)
\* Variant: the indicator divided by the number of samples, not by the
\* leaf's occupancy.
PerTreeWeightBySampleCount(ind, occupancy, N) ==
    IF ind THEN Fact(N) \div N ELSE 0

\* One entry of tmp.astype(float) / n_samples_nodes, as a numerator over N!.
PerTreeWeight(ind, occupancy, N) ==
    IF ind THEN Fact(N) \div occupancy ELSE 0

\* sample_node[j][t] against the query's leaf x_node[t]; full: the mean over
\* the trees, else the single column left as it is.  Numerators over
\* WDen(N, T).
Weight(sample_node, x_node, full, T) ==
    LET N == Len(sample_node)
        cols == DOMAIN x_node
        tmp == [j \in 1..N |-> [t \in cols |-> sample_node[j][t] = x_node[t]]]
        n_samples_nodes ==
            [t \in cols |-> Cardinality({j \in 1..N : tmp[j][t]})]
    IN IF \E t \in cols : n_samples_nodes[t] = 0
       THEN [nan |-> TRUE, w |-> [j \in 1..N |-> 0]]
       ELSE [nan |-> FALSE,
             w |-> [j \in 1..N |->
                      (IF full THEN 1 ELSE T) *
                      SumSeq([t \in cols |->
                          PerTreeWeight(tmp[j][t], n_samples_nodes[t], N)])]]

\* weight != 0 (NaN != 0 is true)
Support(w) == {j \in DOMAIN w.w : w.nan \/ w.w[j] # 0}

(***************************************************************************)
(* The optimisation strategy: check_function, _optFunc, _ieqFunc           *)
(***************************************************************************)
\* u * (alpha - (u < 0) * 1.), times AlphaDen
check_function(y, yi, a) ==
    LET u == y - yi
    IN u * (a - (IF u < 0 THEN AlphaDen ELSE 0))

RECURSIVE SumOver(_, _, _, _)
SumOver(S, y, yi, a) ==
    IF S = {} THEN 0
    ELSE LET j == CHOOSE j \in S : TRUE
         IN check_function(y[j], yi, a) + SumOver(S \ {j}, y, yi, a)

\* check_function(self._output_sample.values[w != 0], yi, alpha).sum()
optFunc(y, yi, w, a) == SumOver(Support(w), y, yi, a)

\* w[self._output_sample.values <= yi].sum() - alpha, times AlphaDen * WDen
ieqFunc(y, yi, w, a, den) ==
    AlphaDen * SumSeq([j \in DOMAIN y |-> IF y[j] <= yi THEN w.w[j] ELSE 0])
      - a * den

\* The points fmin_cobyla / fmin_slsqp can return: the objective is piecewise
\* linear with its breakpoints at the training outputs and the constraint
\* holds from a training output on, so a least feasible value is attained at
\* a training output.  With NaN weights the constraint is NaN and the solver
\* may stop anywhere.
Fmin(y, w, a, den) ==
    LET cand == {y[j] : j \in DOMAIN y}
        feasible == {q \in cand : ieqFunc(y, q, w, a, den) >= 0}
        objective == [q \in feasible |-> optFunc(y, q, w, a)]
    IN IF w.nan THEN cand
       ELSE {q \in feasible : \A r \in feasible : objective[q] <= objective[r]}

(***************************************************************************)
(* The CDF grid (setPrecisionOfCDF) and the inversion strategy             *)
(***************************************************************************)
\* self._yCDF: the sorted outputs, or n_points values evenly spaced from the
\* minimum to the maximum (np.linspace), as numerators over den.
BuildGrid(y, np) ==
    IF np = 0
    THEN [den |-> 1, vals |-> SortSeq(y, LAMBDA a, b : a < b)]
    ELSE LET den == IF np = 1 THEN 1 ELSE np - 1
         IN [den |-> den,
             vals |-> [g \in 1..np |->
                         SeqMin(y) * den + (g - 1) * (SeqMax(y) - SeqMin(y))]]

\* DataFrame(outMatrix <= cdfMatrix).T
BuildIndicator(y, grid, N) ==
    [g \in DOMAIN grid.vals |-> [j \in 1..N |-> y[j] * grid.den <= grid.vals[g]]]

\* self._infYY.dot(weight): the weighted CDF at every grid value
WeightedCDF(ind, w) ==
    [g \in DOMAIN ind |->
        SumSeq([j \in DOMAIN w.w |-> IF ind[g][j] THEN w.w[j] ELSE 0])]

\* the grid indices with CDF >= alphai (none when the weights are NaN)
Reached(ind, w, a, den) ==
    IF w.nan THEN {}
    ELSE {g \in DOMAIN ind : AlphaDen * WeightedCDF(ind, w)[g] >= a * den}

\* self._yCDF.values[CDF >= alphai][0]
InvQuantile(grid, ind, w, a, den) ==
    LET R == Reached(ind, w, a, den)
    IN grid.vals[CHOOSE g \in R : \A h \in R : g <= h]

(***************************************************************************)
(* The value returned (lines 208-213)                                      *)
(***************************************************************************)
RECURSIVE Ravel(_)
Ravel(q) == IF q = <<>> THEN <<>> ELSE Head(q) \o Ravel(Tail(q))

\* Variant: the matrix returned as it is, never flattened.
ReturnAlwaysMatrix(quantiles, n_quantiles, n_alphas, den) ==
    [kind |-> "matrix", val |-> 0, vec |-> <<>>, rows |-> quantiles, den |-> den]

ReturnValue(quantiles, n_quantiles, n_alphas, den) ==
    IF n_quantiles = 1 /\ n_alphas = 1
    THEN [kind |-> "scalar", val |-> quantiles[1][1], vec |-> <<>>,
          rows |-> <<>>, den |-> den]
    ELSE IF n_quantiles = 1 \/ n_alphas = 1
         THEN [kind |-> "vector", val |-> 0, vec |-> Ravel(quantiles),
               rows |-> <<>>, den |-> den]
         ELSE [kind |-> "matrix", val |-> 0, vec |-> <<>>,
               rows |-> quantiles, den |-> den]

(***************************************************************************)
(* Construction: RandomForestRegressor.__init__ (QuantileForest defines no *)
(* constructor of its own).                                                *)
(***************************************************************************)
Construct(T) ==
    /\ assigned = {"n_estimators", "n_jobs", "bootstrap"}
    /\ n_estimators = T
    /\ n_sample = 0
    /\ input_dim = 0
    /\ output_sample = <<>>
    /\ sample_nodes = <<>>
    /\ outputSample = <<>>
    /\ numSample = 0
    /\ n_points = 0
    /\ nodesOfSamples = <<>>
    /\ yCDF = NoGrid
    /\ infYY = <<>>
    /\ pc = "idle"
    /\ op = "none"
    /\ err = ""
    /\ arg = NoArg
    /\ nq = 0
    /\ X_nodes = <<>>
    /\ weights = <<>>
    /\ result = NoResult

Init == Construct(NTree)

(***************************************************************************)
(* fit                                                                     *)
(***************************************************************************)
\* The leaf matrices the forest can report for N training samples.
LeafMatrices(N, T) ==
    {[j \in 1..N |-> IF j = 1 THEN [t \in 1..T |-> 1] ELSE M[j]] :
        M \in [2..N -> [1..T -> Leaves]]}

\* Training outputs: increasing, decreasing, and with a tie.
OutputSamples(N) ==
    { [j \in 1..N |-> j], [j \in 1..N |-> N + 1 - j],
      [j \in 1..N |-> Max2(1, j - 1)] }

Fit(nd, rows, cols, y, nodes) ==
    /\ pc = "idle"
    /\ "_sample_nodes" \notin assigned
    /\ LET size == IF nd = 1 THEN rows ELSE rows * cols
       IN IF rows = size
          THEN n_sample' = rows /\ input_dim' = 1
          ELSE n_sample' = rows /\ input_dim' = cols
    /\ output_sample' = y
    /\ sample_nodes' = nodes
    /\ assigned' = assigned \cup {"_n_sample", "_input_dim", "estimators_",
                                  "_input_sample", "_output_sample",
                                  "_sample_nodes"}
    /\ pc' = "returned"
    /\ op' = "fit"
    /\ err' = ""
    /\ UNCHANGED <<n_estimators, outputSample, numSample, n_points,
                   nodesOfSamples, cdf, arg, nq, X_nodes, weights, result>>

\* The caller takes the outcome of the last call; nothing of it is retained.
Done ==
    /\ pc # "idle"
    /\ pc' = "idle"
    /\ arg' = NoArg
    /\ nq' = 0
    /\ X_nodes' = <<>>
    /\ weights' = <<>>
    /\ result' = NoResult
    /\ err' = ""
    /\ op' = "none"
    /\ UNCHANGED <<inst, cdf>>

(***************************************************************************)
(* How a call ends                                                         *)
(***************************************************************************)
Raise(e, n, xn, ws) ==
    /\ pc' = "raised"
    /\ err' = e
    /\ nq' = n
    /\ X_nodes' = xn
    /\ weights' = ws
    /\ result' = NoResult

Return(n, xn, ws, r) ==
    /\ pc' = "returned"
    /\ err' = ""
    /\ nq' = n
    /\ X_nodes' = xn
    /\ weights' = ws
    /\ result' = r

(***************************************************************************)
(* setPrecisionOfCDF (lines 233-248): what it assigns before it returns or *)
(* stops at an attribute that was never assigned.                          *)
(***************************************************************************)
PrecisionOutcome(np) ==
    IF "_outputSample" \notin assigned
    THEN [err |-> "AttributeError", assigned |-> assigned,
          yCDF |-> yCDF, infYY |-> infYY]
    ELSE LET grid == BuildGrid(outputSample, np)
         IN IF "_numSample" \notin assigned
            THEN [err |-> "AttributeError",
                  assigned |-> assigned \cup {"_yCDF"},
                  yCDF |-> grid, infYY |-> infYY]
            ELSE [err |-> "",
                  assigned |-> assigned \cup {"_yCDF", "_infYY"},
                  yCDF |-> grid,
                  infYY |-> BuildIndicator(outputSample, grid, numSample)]

setPrecisionOfCDF(np) ==
    /\ pc = "idle"
    /\ op' = "setPrecisionOfCDF"
    /\ arg' = [NoArg EXCEPT !.n_points = np]
    /\ LET out == PrecisionOutcome(np)
       IN /\ assigned' = out.assigned
          /\ yCDF' = out.yCDF
          /\ infYY' = out.infYY
          /\ IF out.err # ""
             THEN Raise(out.err, 0, <<>>, <<>>)
             ELSE Return(0, <<>>, <<>>, NoResult)
    /\ UNCHANGED <<n_estimators, n_sample, input_dim, output_sample,
                   sample_nodes, outputSample, numSample, n_points,
                   nodesOfSamples>>

(***************************************************************************)
(* compute_importance (lines 250-277).  The attributes it and its per-tree *)
(* task read, in order; the first one never assigned ends the call, and no *)
(* operation assigns _numJobs, so no task is ever handed to the pool.      *)
(***************************************************************************)
ImportanceReads ==
    <<"_numJobs", "_numTree", "_oobID", "_inputSample", "_outputSample",
      "_input_dim", "_nodesOfSamples">>

compute_importance(a) ==
    /\ pc = "idle"
    /\ \E i \in DOMAIN ImportanceReads : ImportanceReads[i] \notin assigned
    /\ op' = "compute_importance"
    /\ arg' = [NoArg EXCEPT !.alpha = <<a>>]
    /\ Raise("AttributeError", 0, <<>>, <<>>)
    /\ UNCHANGED <<inst, cdf>>

(***************************************************************************)
(* computeQuantile (lines 114-213)                                         *)
(***************************************************************************)
\* the quantile matrices the optimisation strategy can fill in
OptimQuantiles(ws, alpha) ==
    LET y == output_sample
        den == WDen(n_sample, n_estimators)
        cand == {y[j] : j \in DOMAIN y}
    IN {q \in [DOMAIN ws -> [DOMAIN alpha -> cand]] :
          \A k \in DOMAIN ws : \A i \in DOMAIN alpha :
              q[k][i] \in Fmin(y, ws[k], alpha[i], den)}

\* the grid indices reached for every (query point, level); a missing one
\* is the IndexError of [0] on an empty selection
InversionFails(grid, ind, ws, alpha) ==
    \E k \in DOMAIN ws : \E i \in DOMAIN alpha :
        Reached(ind, ws[k], alpha[i], WDen(n_sample, n_estimators)) = {}

InversionQuantiles(grid, ind, ws, alpha) ==
    [k \in DOMAIN ws |-> [i \in DOMAIN alpha |->
        InvQuantile(grid, ind, ws[k], alpha[i], WDen(n_sample, n_estimators))]]

\* lines 155-213 once X_nodes and sample_node are known
Resolve(n, xn, sample_node, full, grid, ind, alpha, do_optim, opt_method) ==
    LET ws == [k \in 1..n |-> Weight(sample_node, xn[k], full, n_estimators)]
        m == Len(alpha)
    IN IF do_optim
       THEN IF m > 0 /\ opt_method \notin {"Cobyla", "SQP"}
            THEN Raise("MethodError", n, xn, SubSeq(ws, 1, 1))
            ELSE \E q \in OptimQuantiles(ws, alpha) :
                    Return(n, xn, ws, ReturnValue(q, n, m, 1))
       ELSE IF InversionFails(grid, ind, ws, alpha)
            THEN Raise("IndexError", n, xn, ws)
            ELSE Return(n, xn, ws,
                        ReturnValue(InversionQuantiles(grid, ind, ws, alpha),
                                    n, m, grid.den))

computeQuantile(x, alpha, do_optim, doSaveCDF, iTree, opt_method) ==
    /\ pc = "idle"
    /\ op' = "computeQuantile"
    /\ arg' = [xkind |-> x.xkind, rows |-> x.rows, cols |-> x.cols,
               alpha |-> alpha, do_optim |-> do_optim,
               doSaveCDF |-> doSaveCDF, iTree |-> iTree,
               opt_method |-> opt_method, n_points |-> 0]
    /\ UNCHANGED <<n_estimators, n_sample, input_dim, output_sample,
                   sample_nodes, outputSample, numSample, n_points,
                   nodesOfSamples>>
    /\ LET X0 == [nd |-> IF x.xkind = "mat" THEN 2 ELSE 1,
                  rows |-> x.rows, cols |-> x.cols]
           same == /\ assigned' = assigned
                   /\ UNCHANGED cdf
       IN IF "_input_dim" \notin assigned
          THEN same /\ Raise("AttributeError", 0, <<>>, <<>>)
          ELSE
          LET chk == check_input(X0, input_dim)
              n == chk.n
              X == chk.X
              \* lines 135-138
              pre == IF doSaveCDF \/ ~do_optim
                     THEN IF "_n_points" \notin assigned
                          THEN [err |-> "AttributeError", assigned |-> assigned,
                                yCDF |-> yCDF, infYY |-> infYY]
                          ELSE PrecisionOutcome(n_points)
                     ELSE [err |-> "", assigned |-> assigned,
                           yCDF |-> yCDF, infYY |-> infYY]
              \* rows and columns the forest is handed
              single == n = 1 /\ input_dim = 1
              applyRows == IF X.nd = 1 \/ single THEN 1 ELSE X.rows
              mismatch == X.nd = 2 /\ X.cols # input_dim
          IN IF chk.err # ""
             THEN same /\ Raise(chk.err, 0, <<>>, <<>>)
             ELSE
             /\ yCDF' = pre.yCDF
             /\ infYY' = pre.infYY
             /\ IF pre.err # ""
                THEN assigned' = pre.assigned /\ Raise(pre.err, n, <<>>, <<>>)
                ELSE
                /\ assigned' = IF doSaveCDF THEN pre.assigned \cup {"_CDF"}
                               ELSE pre.assigned
                /\ IF iTree < 0
                   THEN \* self.apply: releases that check the feature count
                        \* refuse a mismatching X, the others answer from the
                        \* columns they read
                        \/ mismatch /\ Raise("ForestError", n, <<>>, <<>>)
                        \/ \E xn \in [1..applyRows -> [1..n_estimators -> Leaves]] :
                              Resolve(n, xn, sample_nodes, TRUE, pre.yCDF,
                                      pre.infYY, alpha, do_optim, opt_method)
                   ELSE \* tree.apply wants a 2-D array
                        \/ X.nd = 1 /\ Raise("ForestError", n, <<>>, <<>>)
                        \/ \E xn \in [1..n -> [{1} -> Leaves]] :
                              IF "_nodesOfSamples" \notin assigned
                              THEN Raise("AttributeError", n, xn, <<>>)
                              ELSE Resolve(n, xn,
                                      [j \in DOMAIN nodesOfSamples |->
                                          <<nodesOfSamples[j][iTree + 1]>>],
                                      FALSE, pre.yCDF, pre.infYY, alpha,
                                      do_optim, opt_method)

(***************************************************************************)
(* Specifications                                                          *)
(***************************************************************************)
Rows == {1, 2}
QueryShapes ==
    {[xkind |-> "scalar", rows |-> 1, cols |-> 0]}
      \cup {[xkind |-> "vec", rows |-> r, cols |-> 0] : r \in Rows}
      \cup {[xkind |-> "mat", rows |-> r, cols |-> c] : r \in Rows, c \in Rows}
AlphaLists == {<<>>, <<3>>, <<6>>, <<3, 6>>}
Precisions == {0, 1, 3}

FitAny(N) ==
    /\ pc = "idle"
    /\ "_sample_nodes" \notin assigned
    /\ \E nd \in {1, 2}, d \in Dims, y \in OutputSamples(N),
       nodes \in LeafMatrices(N, n_estimators) :
          Fit(nd, N, d, y, nodes)

Next ==
    \/ FitAny(NSample)
    \/ /\ pc = "idle"
       /\ \E x \in QueryShapes, alpha \in AlphaLists, do_optim \in BOOLEAN,
             doSaveCDF \in BOOLEAN, iTree \in -1..(n_estimators - 1),
             opt_method \in Methods :
             /\ x.xkind = "scalar" => Len(alpha) = 1
             /\ computeQuantile(x, alpha, do_optim, doSaveCDF, iTree,
                                opt_method)
    \/ \E np \in Precisions : setPrecisionOfCDF(np)
    \/ \E a \in AlphaVals : compute_importance(a)
    \/ Done

Spec == Init /\ [][Next]_vars

\* One query point, one level, the whole forest: the weights and the
\* optimisation strategy on their own, on larger training sets.
FitOutputs(N, Ys) ==
    /\ pc = "idle"
    /\ "_sample_nodes" \notin assigned
    /\ \E y \in Ys, nodes \in LeafMatrices(N, n_estimators) :
          Fit(2, N, 1, y, nodes)

QuantileOfScalar ==
    /\ pc = "idle"
    /\ \E a \in AlphaVals, opt_method \in {"Cobyla", "SQP"} :
          computeQuantile([xkind |-> "scalar", rows |-> 1, cols |-> 0],
                          <<a>>, TRUE, FALSE, -1, opt_method)

InitW == Construct(NTreeW)
NextW == FitOutputs(NSampleW, OutputSamples(NSampleW)) \/ QuantileOfScalar \/ Done
SpecW == InitW /\ [][NextW]_vars

InitQ == Construct(NTreeQ)
NextQ == FitOutputs(NSampleQ, {[j \in 1..NSampleQ |-> j]}) \/ QuantileOfScalar \/ Done
SpecQ == InitQ /\ [][NextQ]_vars

(***************************************************************************)
(* Vocabulary of the properties                                            *)
(***************************************************************************)
Fitted == "_sample_nodes" \in assigned
QuantileCall == op = "computeQuantile" /\ pc # "idle"
QuantileReturned == op = "computeQuantile" /\ pc = "returned"
NAlphas == Len(arg.alpha)

\* entry (k, i) of the value returned
Entry(k, i) ==
    IF result.kind = "scalar" THEN result.val
    ELSE IF result.kind = "vector" THEN result.vec[(k - 1) * NAlphas + i]
    ELSE result.rows[k][i]

\* the kind of value the shape rule asks for
ShapeKind(n, m) ==
    IF n = 1 /\ m = 1 THEN "scalar"
    ELSE IF n = 1 \/ m = 1 THEN "vector" ELSE "matrix"

\* entry (k, i) is a quantile of query point k at level i: a constrained
\* minimum for the weights of the leaves the forest gave point k
EntriesAreQuantiles ==
    \A k \in 1..nq : \A i \in 1..NAlphas :
        /\ weights[k] = Weight(sample_nodes, X_nodes[k], TRUE, n_estimators)
        /\ Entry(k, i) \in Fmin(output_sample, weights[k], arg.alpha[i],
                                WDen(n_sample, n_estimators))

\* occupancy of query point k's leaf in tree t among the training samples
Occupancy(k, t, col) ==
    Cardinality({j \in 1..n_sample : sample_nodes[j][col] = X_nodes[k][t]})

\* the largest distance between adjacent distinct training outputs
MaxGap(y) ==
    LET vals == {y[j] : j \in DOMAIN y}
        gaps == {b - a : a \in vals, b \in vals} \cap
                {g \in 1..(SeqMax(y) - SeqMin(y) + 1) :
                    \E a \in vals : a + g \in vals /\
                        \A c \in vals : ~(a < c /\ c < a + g)}
    IN IF gaps = {} THEN 0
       ELSE CHOOSE g \in gaps : \A h \in gaps : g >= h

Abs(v) == IF v < 0 THEN -v ELSE v

\* the query's dimensionality differs from the fitted one, the 1-D input of
\* length d (one sample of dimension d) excepted
MismatchingQuery ==
    \/ arg.xkind = "mat" /\ arg.cols # input_dim
    \/ arg.xkind \in {"scalar", "vec"} /\ input_dim # 1 /\ arg.rows # input_dim

(***************************************************************************)
(* C1.  A computeQuantile call that returns, with n query points resolved  *)
(* by _check_input and m levels, returns a scalar iff n = 1 and m = 1, a   *)
(* flat sequence iff exactly one of n, m is 1, an n-by-m matrix otherwise, *)
(* and entry (k, i) is the quantile of query point k at level i.  As       *)
(* claimed the flat sequence has length max(n, m): C1_ShapeAsClaimed.  The *)
(* code gives it length n * m, which is 0 for n = 1 and no level at all:   *)
(* C1_Shape.                                                               *)
(***************************************************************************)
C1_ShapeAsClaimed ==
    QuantileReturned =>
        /\ result.kind = ShapeKind(nq, NAlphas)
        /\ result.kind = "vector" => Len(result.vec) = Max2(nq, NAlphas)
        /\ result.kind = "matrix" =>
              /\ Len(result.rows) = nq
              /\ \A k \in 1..nq : Len(result.rows[k]) = NAlphas
        /\ EntriesAreQuantiles

C1_Shape ==
    QuantileReturned =>
        /\ result.kind = ShapeKind(nq, NAlphas)
        /\ result.kind = "vector" => Len(result.vec) = nq * NAlphas
        /\ result.kind = "matrix" =>
              /\ Len(result.rows) = nq
              /\ \A k \in 1..nq : Len(result.rows[k]) = NAlphas
        /\ EntriesAreQuantiles

C1_Witness ==
    /\ QuantileReturned
    /\ nq = 1
    /\ NAlphas = 2
    /\ result.kind = "vector"
    /\ result.vec[1] # result.vec[2]

(***************************************************************************)
(* C2.  In full-forest mode, when every tree's leaf of the query point     *)
(* holds at least one training sample, the weights computed for the point  *)
(* are all >= 0 and sum to 1 (WDen over WDen).                             *)
(***************************************************************************)
C2_WeightsNormalised ==
    (QuantileCall /\ arg.iTree < 0) =>
        \A k \in DOMAIN weights :
            (\A t \in 1..n_estimators : Occupancy(k, t, t) >= 1) =>
                /\ ~weights[k].nan
                /\ \A j \in 1..n_sample : weights[k].w[j] >= 0
                /\ SumSeq(weights[k].w) = WDen(n_sample, n_estimators)

C2_Witness ==
    /\ QuantileReturned
    /\ arg.iTree < 0
    /\ weights # <<>>
    /\ \A t \in 1..n_estimators : Occupancy(1, t, t) >= 1
    /\ \E i, j \in 1..n_sample :
          /\ weights[1].w[i] = 0
          /\ weights[1].w[j] > 0
    /\ \E i, j \in 1..n_sample : 0 < weights[1].w[i] /\ weights[1].w[i] < weights[1].w[j]

(***************************************************************************)
(* C3.  With the inversion strategy (do_optim = False) a call on a query   *)
(* _check_input accepts returns, for every point and level, the smallest   *)
(* value of the CDF grid whose weighted CDF is >= alpha; the lookup never  *)
(* fails.                                                                  *)
(***************************************************************************)
C3_InversionReturnsSmallest ==
    (QuantileCall /\ Fitted /\ ~arg.do_optim /\ nq > 0 /\ NAlphas > 0
        /\ err # "ForestError") =>
        /\ pc = "returned"
        /\ \A k \in 1..nq : \A i \in 1..NAlphas :
              LET R == Reached(infYY, weights[k], arg.alpha[i],
                               WDen(n_sample, n_estimators))
              IN /\ R # {}
                 /\ \A g \in R : Entry(k, i) <= yCDF.vals[g]
                 /\ \E g \in R : Entry(k, i) = yCDF.vals[g]

(***************************************************************************)
(* C4.  For the same weights and level, the value at which the optimised   *)
(* problem (_optFunc least subject to _ieqFunc >= 0) attains its minimum   *)
(* and the value the inversion strategy gives on the full-resolution grid  *)
(* (the sorted training outputs) differ by no more than the spacing of     *)
(* adjacent distinct training outputs.                                     *)
(***************************************************************************)
C4_StrategiesAgree ==
    (QuantileReturned /\ arg.do_optim /\ arg.iTree < 0) =>
        \A k \in 1..nq : \A i \in 1..NAlphas :
            ~weights[k].nan =>
                LET grid == BuildGrid(output_sample, 0)
                    ind == BuildIndicator(output_sample, grid, n_sample)
                    inv == InvQuantile(grid, ind, weights[k], arg.alpha[i],
                                       WDen(n_sample, n_estimators))
                IN Abs(Entry(k, i) - inv) <= MaxGap(output_sample)

(***************************************************************************)
(* C5.  On a fitted model every computeQuantile call whose query does not  *)
(* have the fitted dimensionality ends in an error, the 1-D input of       *)
(* length d excepted.                                                      *)
(***************************************************************************)
C5_MismatchRejected ==
    (QuantileCall /\ Fitted /\ MismatchingQuery /\ NAlphas > 0) =>
        pc = "raised"

(***************************************************************************)
(* C6.  In single-tree mode (iTree >= 0), when the leaf of a query point   *)
(* holds no training sample of that tree, the call raises EmptyLeafError.  *)
(***************************************************************************)
C6_EmptyLeafRaises ==
    (QuantileCall /\ Fitted /\ arg.iTree >= 0 /\ X_nodes # <<>>
        /\ \E k \in DOMAIN X_nodes : Occupancy(k, 1, arg.iTree + 1) = 0) =>
        err = "EmptyLeafError"

(***************************************************************************)
(* C7.  Every computeQuantile call whose opt_method is neither "Cobyla"    *)
(* nor "SQP" ends in an error, whatever do_optim, the number of query      *)
(* points and the number of levels.                                        *)
(***************************************************************************)
C7_UnknownMethodRaises ==
    (QuantileCall /\ arg.opt_method \notin {"Cobyla", "SQP"}) => pc = "raised"

(***************************************************************************)
(* C8.  The CDF grid is built on the first use of the inversion strategy   *)
(* or doSaveCDF and rebuilt by setPrecisionOfCDF: once setPrecisionOfCDF(p)*)
(* has been called on a fitted model the grid is the sorted training       *)
(* outputs when p = 0 and otherwise p evenly spaced values from the least  *)
(* to the greatest training output, with its indicator matrix.             *)
(***************************************************************************)
C8_GridAfterSetPrecision ==
    (op = "setPrecisionOfCDF" /\ pc # "idle" /\ Fitted) =>
        LET grid == BuildGrid(output_sample, arg.n_points)
        IN /\ pc = "returned"
           /\ yCDF = grid
           /\ infYY = BuildIndicator(output_sample, grid, n_sample)

(***************************************************************************)
(* C9.  compute_importance on a fitted model yields, whatever the order in *)
(* which the per-tree tasks run, one result: the elementwise mean over the *)
(* trees of (permuted error - baseline error), one entry per input         *)
(* dimension.                                                              *)
(***************************************************************************)
C9_ImportanceYieldsResult ==
    (op = "compute_importance" /\ pc # "idle" /\ Fitted) =>
        /\ result.kind = "vector"
        /\ Len(result.vec) = input_dim

(***************************************************************************)
(* C10.  Once fit has returned, no operation ends because it reads an      *)
(* instance attribute that was never assigned.                             *)
(***************************************************************************)
C10_NoUnassignedRead ==
    Fitted => err # "AttributeError"

====
